---- MODULE Spec2Model ----
(***************************************************************************)
(* Model of leaf_model_mnl.py: the LeafModel facade (fit dispatch, warm    *)
(* start, lazy backend creation, delegation) and the helpers get_sub and   *)
(* are_Ys_diverse.                                                         *)
(*                                                                         *)
(* Spec         the facade, one atomic action per method call              *)
(* SpecPar      several workers running fit statement by statement         *)
(* SpecHelpers  the pure helpers applied to bounded inputs                 *)
(***************************************************************************)
EXTENDS Integers, Sequences, FiniteSets

VARIABLES
  alive,          \* alive[m]: LeafModel m has been constructed
  leaf_mod_type,  \* self.leaf_mod_type of every LeafModel ("unset": attribute absent)
  mnl,            \* self.mnl of every LeafModel: None or a backend reference
  heap,           \* heap[m]: the backend objects created by LeafModel m, in creation order
  call,           \* the last facade call: arguments, what was forwarded, outcome
  pc,             \* SpecPar: position of every worker inside fit
  wl,             \* SpecPar: arguments and locals of every worker's fit call
  init0,          \* SpecPar: the state before the workers started
  args,           \* SpecHelpers: inputs of the helper calls
  args0,          \* SpecHelpers: the inputs as first drawn
  res             \* SpecHelpers: results of the helper calls

vars == <<alive, leaf_mod_type, mnl, heap, call, pc, wl, init0, args, args0, res>>

facadeVars == <<alive, leaf_mod_type, mnl, heap, call>>
parVars == <<pc, wl, init0>>
helperVars == <<args, args0, res>>

\* ---------------------------------------------------------------- bounds
MaxModels == 2
NumWorkers == 2
NumInits == 1
MaxLen == 3

\* ------------------------------------------------------------- constants
DefaultThresh == 1000000

Models == 1..MaxModels
None == <<>>
NoFitInit == 0
Omitted == -1
Unset == "unset"
Sizes == {DefaultThresh, DefaultThresh + 1, 1500000}
\* <<len(Y), leaf_mod_thresh>> of a fit call: every size under the default
\* threshold, and a size just above an explicit threshold that the default
\* threshold would put below
FitArgs == (Sizes \X {Omitted}) \cup {<<500001, 500000>>}
QueryOps == {"predict", "error", "error_pruning", "to_string"}

NoCall == [op |-> "none"]

\* ------------------------------------------------------ facade: fit
\* leaf_mod_thresh as bound by the signature
EffThresh(th) == IF th = Omitted THEN DefaultThresh ELSE th

SelectTagGE(n, thresh) == IF n >= thresh THEN "tensorflow" ELSE "rmnlogit"

\* the branch taken at "if (len(Y) > leaf_mod_thresh)"
SelectTag(n, thresh) == IF n > thresh THEN "tensorflow" ELSE "rmnlogit"

\* the class instantiated in the selected branch
BackendClass(sel) == IF sel = "tensorflow" THEN "LeafModelTensorflow" ELSE "LeafModelRMNLogit"

SetTypeShared(types, self, sel) == [m \in DOMAIN types |-> sel]

\* self.leaf_mod_type = <tag>
SetType(types, self, sel) == [types EXCEPT ![self] = sel]

\* reading fit_init.leaf_mod_type raises AttributeError when the attribute is absent
TypeReadable(fi, types) == fi = NoFitInit \/ types[fi] # Unset

WarmStartAny(fi, types, mnls, sel) == IF fi # NoFitInit THEN mnls[fi] ELSE None

\* fit_init = fit_init.mnl if the tags agree, else None
WarmStart(fi, types, mnls, sel) ==
  IF fi # NoFitInit /\ types[fi] = sel THEN mnls[fi] ELSE None

Deref(hp, b) == hp[b[1]][b[2]]

NeedsBackendOnChange(held, hp, sel) ==
  held = None \/ Deref(hp, held).variant # BackendClass(sel)

\* if self.mnl is None
NeedsBackend(held, hp, sel) == held = None

NewBackendShared(hp, self, fwd) == IF fwd # None THEN fwd ELSE <<self, Len(hp[self])>>

\* the reference stored in self.mnl: the object just constructed
NewBackend(hp, self, fwd) == <<self, Len(hp[self])>>

\* backend.fit: returns 0 or 1; the backend is usable once a fit succeeded
BackendFitResults == {0, 1}
BackendFit(hp, b, r) ==
  [hp EXCEPT ![b[1]][b[2]].ok = @ \/ (r = 0)]

FacadeReturnZero(bret) == 0

\* return(error)
FacadeReturn(bret) == bret

\* the whole of fit on the state (types, mnls, hp)
FitResult(types, mnls, hp, self, n, thresh, fi, r) ==
  LET sel == SelectTag(n, thresh)
      types1 == SetType(types, self, sel)
  IN IF ~TypeReadable(fi, types1)
     THEN [raised |-> TRUE, types |-> types1, mnls |-> mnls, hp |-> hp,
           fwd |-> None, exec |-> None, bret |-> -1, ret |-> -1]
     ELSE
       LET fwd == WarmStart(fi, types1, mnls, sel)
           create == NeedsBackend(mnls[self], hp, sel)
           hp1 == IF create
                  THEN [hp EXCEPT ![self] =
                          Append(@, [variant |-> BackendClass(sel), ok |-> FALSE])]
                  ELSE hp
           mnls1 == IF create
                    THEN [mnls EXCEPT ![self] = NewBackend(hp1, self, fwd)]
                    ELSE mnls
           exec == mnls1[self]
       IN [raised |-> FALSE, types |-> types1, mnls |-> mnls1,
           hp |-> BackendFit(hp1, exec, r),
           fwd |-> fwd, exec |-> exec, bret |-> r, ret |-> FacadeReturn(r)]

\* LeafModel.__init__
Construct(m) ==
  /\ ~alive[m]
  /\ \A k \in Models : k < m => alive[k]    \* objects are named in creation order
  /\ alive' = [alive EXCEPT ![m] = TRUE]
  /\ mnl' = [mnl EXCEPT ![m] = None]
  /\ call' = [op |-> "init", self |-> m]
  /\ UNCHANGED <<leaf_mod_type, heap>>
  /\ UNCHANGED parVars /\ UNCHANGED helperVars

\* LeafModel.fit
Fit(m, n, th, fi, r) ==
  /\ alive[m]
  /\ IF fi = NoFitInit THEN TRUE ELSE alive[fi]
  /\ LET f == FitResult(leaf_mod_type, mnl, heap, m, n, EffThresh(th), fi, r)
     IN /\ leaf_mod_type' = f.types
        /\ mnl' = f.mnls
        /\ heap' = f.hp
        /\ call' = [op |-> "fit", self |-> m, n |-> n, th |-> th, fi |-> fi,
                    raised |-> f.raised, fwd |-> f.fwd, exec |-> f.exec,
                    bret |-> f.bret, ret |-> f.ret,
                    preMnl |-> mnl[m],
                    fiType |-> IF fi = NoFitInit THEN Unset ELSE leaf_mod_type[fi],
                    fiMnl |-> IF fi = NoFitInit THEN None ELSE mnl[fi]]
  /\ UNCHANGED alive
  /\ UNCHANGED parVars /\ UNCHANGED helperVars

\* ------------------------------------------------ facade: delegation
\* what a backend does when queried: a usable model answers; one that never
\* fitted successfully is unspecified
BackendQuery(b) == IF b.ok THEN {"value"} ELSE {"value", "raise"}

FacadeQuerySwallow(held, hp) ==
  IF held = None THEN {"value"} ELSE BackendQuery(Deref(hp, held))

\* self.mnl.<method>(...): attribute access on None raises
FacadeQuery(held, hp) ==
  IF held = None THEN {"raise"} ELSE BackendQuery(Deref(hp, held))

Delegate(m, op) ==
  /\ alive[m]
  /\ \E o \in FacadeQuery(mnl[m], heap) :
       call' = [op |-> op, self |-> m, outcome |-> o]
  /\ UNCHANGED <<alive, leaf_mod_type, mnl, heap>>
  /\ UNCHANGED parVars /\ UNCHANGED helperVars

Predict(m) == Delegate(m, "predict")
Error(m) == Delegate(m, "error")
ErrorPruning(m) == Delegate(m, "error_pruning")
ToString(m) == Delegate(m, "to_string")

Init ==
  /\ alive = [m \in Models |-> FALSE]
  /\ leaf_mod_type = [m \in Models |-> Unset]
  /\ mnl = [m \in Models |-> None]
  /\ heap = [m \in Models |-> <<>>]
  /\ call = NoCall
  /\ pc = <<>> /\ wl = <<>> /\ init0 = <<>>
  /\ args = <<>> /\ args0 = <<>> /\ res = <<>>

Next ==
  \/ \E m \in Models : Construct(m)
  \/ \E m \in Models, a \in FitArgs,
        fi \in Models \cup {NoFitInit}, r \in BackendFitResults : Fit(m, a[1], a[2], fi, r)
  \/ \E m \in Models : Predict(m)
  \/ \E m \in Models : Error(m)
  \/ \E m \in Models : ErrorPruning(m)
  \/ \E m \in Models : ToString(m)

Spec == Init /\ [][Next]_vars

\* ------------------------------------------- fit, statement by statement
\* Worker w runs fit on LeafModel w; the LeafModels after the workers' own are
\* fitted models that can be passed as fit_init and that nobody is fitting.
Workers == 1..NumWorkers
InitModels == (NumWorkers + 1)..(NumWorkers + NumInits)
ParModels == Workers \cup InitModels
ParArgs == {<<500000, Omitted>>, <<1500000, Omitted>>}

\* states a LeafModel is in between calls: never fitted, or holding a backend
Fresh == [type |-> Unset, variant |-> "none"]
Fitted(sel, cls) == [type |-> sel, variant |-> cls]
WorkerShapes == {Fresh, Fitted("rmnlogit", "LeafModelRMNLogit")}
FitInitShapes == {Fitted("tensorflow", "LeafModelTensorflow"),
                  Fitted("rmnlogit", "LeafModelRMNLogit"),
                  Fitted("tensorflow", "LeafModelRMNLogit")}

Unassigned == <<"unassigned">>

InitPar ==
  /\ \E shape \in [Workers -> WorkerShapes],
        ishape \in [InitModels -> FitInitShapes] :
       LET sh == [m \in ParModels |-> IF m \in Workers THEN shape[m] ELSE ishape[m]]
       IN /\ leaf_mod_type = [m \in ParModels |-> sh[m].type]
          /\ mnl = [m \in ParModels |->
                      IF sh[m].variant = "none" THEN None ELSE <<m, 1>>]
          /\ heap = [m \in ParModels |->
                      IF sh[m].variant = "none" THEN <<>>
                      ELSE <<[variant |-> sh[m].variant, ok |-> TRUE]>>]
  /\ alive = [m \in ParModels |-> TRUE]
  /\ call = NoCall
  /\ pc = [w \in Workers |-> "l105"]
  /\ \E a \in [Workers -> ParArgs], f \in [Workers -> InitModels \cup {NoFitInit}] :
       wl = [w \in Workers |->
               [n |-> a[w][1], th |-> a[w][2], fi |-> f[w],
                sel |-> Unset, fit_init |-> Unassigned, ret |-> -1]]
  /\ init0 = [types |-> leaf_mod_type, mnls |-> mnl, hp |-> heap]
  /\ args = <<>> /\ args0 = <<>> /\ res = <<>>

\* if (len(Y) > leaf_mod_thresh): self.leaf_mod_type = ...
Stmt105(w) ==
  /\ pc[w] = "l105"
  /\ LET sel == SelectTag(wl[w].n, EffThresh(wl[w].th))
     IN /\ leaf_mod_type' = SetType(leaf_mod_type, w, sel)
        /\ wl' = [wl EXCEPT ![w].sel = sel]
  /\ pc' = [pc EXCEPT ![w] = "l107"]
  /\ UNCHANGED <<alive, mnl, heap, call, init0>> /\ UNCHANGED helperVars

\* if fit_init is not None and fit_init.leaf_mod_type == <tag>: ... else: ...
Stmt107(w) ==
  /\ pc[w] = "l107"
  /\ IF ~TypeReadable(wl[w].fi, leaf_mod_type)
     THEN /\ pc' = [pc EXCEPT ![w] = "raised"]
          /\ wl' = wl
     ELSE /\ pc' = [pc EXCEPT ![w] = "l112"]
          /\ wl' = [wl EXCEPT ![w].fit_init =
                      WarmStart(wl[w].fi, leaf_mod_type, mnl, wl[w].sel)]
  /\ UNCHANGED <<alive, leaf_mod_type, mnl, heap, call, init0>> /\ UNCHANGED helperVars

\* if self.mnl is None: self.mnl = <class>()
Stmt112(w) ==
  /\ pc[w] = "l112"
  /\ IF NeedsBackend(mnl[w], heap, wl[w].sel)
     THEN LET hp1 == [heap EXCEPT ![w] =
                        Append(@, [variant |-> BackendClass(wl[w].sel), ok |-> FALSE])]
          IN /\ heap' = hp1
             /\ mnl' = [mnl EXCEPT ![w] = NewBackend(hp1, w, wl[w].fit_init)]
     ELSE UNCHANGED <<heap, mnl>>
  /\ pc' = [pc EXCEPT ![w] = "l125"]
  /\ UNCHANGED <<alive, leaf_mod_type, call, wl, init0>> /\ UNCHANGED helperVars

\* error = self.mnl.fit(..., fit_init=fit_init); return(error)
Stmt125(w, r) ==
  /\ pc[w] = "l125"
  /\ heap' = BackendFit(heap, mnl[w], r)
  /\ wl' = [wl EXCEPT ![w].ret = FacadeReturn(r)]
  /\ pc' = [pc EXCEPT ![w] = "done"]
  /\ UNCHANGED <<alive, leaf_mod_type, mnl, call, init0>> /\ UNCHANGED helperVars

NextPar ==
  \/ \E w \in Workers : Stmt105(w)
  \/ \E w \in Workers : Stmt107(w)
  \/ \E w \in Workers : Stmt112(w)
  \/ \E w \in Workers, r \in BackendFitResults : Stmt125(w, r)

SpecPar == InitPar /\ [][NextPar]_vars

\* --------------------------------------------------------------- helpers
\* an argument that is None
Absent == <<-1>>
YVals == {1, 2}

RECURSIVE SortedSeq(_)
SortedSeq(S) ==
  IF S = {} THEN <<>>
  ELSE LET lo == CHOOSE x \in S : \A y \in S : x <= y
       IN <<lo>> \o SortedSeq(S \ {lo})

\* np.unique: the sorted distinct elements
np_unique(Y) == SortedSeq({Y[i] : i \in DOMAIN Y})

are_Ys_diverseLen(Y) == Len(Y) > 1

\* are_Ys_diverse
are_Ys_diverse(Y) == Len(np_unique(Y)) > 1

\* rows of data where the mask is true, in data order
RECURSIVE MaskRows(_, _)
MaskRows(data, mask) ==
  IF mask = <<>> THEN <<>>
  ELSE (IF Head(mask) THEN <<Head(data)>> ELSE <<>>) \o MaskRows(Tail(data), Tail(mask))

\* rows of data at the 0-based positions, in the order the positions are given
TakeRows(data, positions) == [k \in DOMAIN positions |-> data[positions[k] + 1]]

\* data[data_inds] on an array: a boolean array selects by mask, an integer
\* array by position
NumpyIndex(data, idx) ==
  IF idx.bool THEN MaskRows(data, idx.v) ELSE TakeRows(data, idx.v)

get_subWholeY(data_inds, A, Y, is_boolvec) ==
  IF A = Absent THEN
    (IF Y = Absent THEN <<"raise">> ELSE <<"array", NumpyIndex(Y, data_inds)>>)
  ELSE IF Y = Absent THEN <<"array", NumpyIndex(A, data_inds)>>
  ELSE <<"tuple", NumpyIndex(A, data_inds), Y>>

\* get_sub
get_sub(data_inds, A, Y, is_boolvec) ==
  IF A = Absent THEN
    (IF Y = Absent THEN <<"raise">> ELSE <<"array", NumpyIndex(Y, data_inds)>>)
  ELSE IF Y = Absent THEN <<"array", NumpyIndex(A, data_inds)>>
  ELSE <<"tuple", NumpyIndex(A, data_inds), NumpyIndex(Y, data_inds)>>

\* sequences of distinct positions below n, in any order
DistinctSeqs(n) ==
  UNION {{q \in [1..k -> 0..(n - 1)] : \A i, j \in 1..k : i # j => q[i] # q[j]} : k \in 0..n}

InitHelpers ==
  /\ \E n \in 0..MaxLen :
       \E A \in {Absent, [i \in 1..n |-> 10 * i], [i \in 1..n |-> 10]},
          Y \in {Absent} \cup [1..n -> YVals],
          inds \in DistinctSeqs(n), mask \in [1..n -> BOOLEAN] :
         /\ ~(A = Absent /\ Y = Absent)
         /\ args = [A |-> A, Y |-> Y, inds |-> inds, mask |-> mask]
  /\ args0 = args
  /\ res = [idxDone |-> FALSE, byIdx |-> <<>>, maskDone |-> FALSE, byMask |-> <<>>,
            divDone |-> FALSE, diverse |-> FALSE]
  /\ alive = <<>> /\ leaf_mod_type = <<>> /\ mnl = <<>> /\ heap = <<>> /\ call = NoCall
  /\ pc = <<>> /\ wl = <<>> /\ init0 = <<>>

\* get_sub(data_inds, A, Y) with integer positions
GetSubByIndex ==
  /\ res' = [res EXCEPT !.idxDone = TRUE,
                        !.byIdx = get_sub([bool |-> FALSE, v |-> args.inds],
                                          args.A, args.Y, FALSE)]
  /\ UNCHANGED <<args, args0>> /\ UNCHANGED facadeVars /\ UNCHANGED parVars

\* get_sub(data_inds, A, Y, is_boolvec=True) with a boolean mask
GetSubByMask ==
  /\ res' = [res EXCEPT !.maskDone = TRUE,
                        !.byMask = get_sub([bool |-> TRUE, v |-> args.mask],
                                           args.A, args.Y, TRUE)]
  /\ UNCHANGED <<args, args0>> /\ UNCHANGED facadeVars /\ UNCHANGED parVars

\* are_Ys_diverse(Y)
AreYsDiverse ==
  /\ args.Y # Absent
  /\ res' = [res EXCEPT !.divDone = TRUE, !.diverse = are_Ys_diverse(args.Y)]
  /\ UNCHANGED <<args, args0>> /\ UNCHANGED facadeVars /\ UNCHANGED parVars

NextHelpers == GetSubByIndex \/ GetSubByMask \/ AreYsDiverse

SpecHelpers == InitHelpers /\ [][NextHelpers]_vars

\* ============================================================ properties
\* the tag the dispatch rule prescribes for n observations under threshold th
ExpectedTag(n, th) ==
  IF n > (IF th = Omitted THEN 1000000 ELSE th) THEN "tensorflow" ELSE "rmnlogit"

\* b is a backend object, not a facade
IsBackend(b) == Len(b) = 2 /\ b[1] \in Models /\ b[2] \in 1..Len(heap[b[1]])

Delegated == call.op = "fit" /\ ~call.raised

\* the tag and backend of fit_init as the fit call reads them
SeenType == IF call.fi = call.self THEN ExpectedTag(call.n, call.th) ELSE call.fiType
SeenMnl == IF call.fi = call.self THEN call.preMnl ELSE call.fiMnl

\* C1: after every fit call that reaches the backend (first fit or refit, with
\* or without fit_init, whatever backend is held) leaf_mod_type is "tensorflow"
\* iff len(Y) > leaf_mod_thresh and "rmnlogit" otherwise; len(Y) = threshold
\* gives "rmnlogit", threshold + 1 gives "tensorflow", the threshold being
\* 1000000 when omitted.
C1_DispatchByThreshold ==
  Delegated =>
    LET thr == IF call.th = Omitted THEN 1000000 ELSE call.th
        t == leaf_mod_type[call.self]
    IN /\ t \in {"tensorflow", "rmnlogit"}
       /\ (t = "tensorflow") <=> (call.n > thr)
       /\ (call.n = thr) => (t = "rmnlogit")
       /\ (call.n = thr + 1) => (t = "tensorflow")

C1_Witness ==
  /\ Delegated
  /\ call.th = Omitted /\ call.n = 1000001
  /\ call.preMnl # None /\ call.fi # NoFitInit
  /\ Deref(heap, mnl[call.self]).variant = "LeafModelRMNLogit"
  /\ leaf_mod_type[call.self] = "tensorflow"

C4_InitializerVariantMatches ==
  (Delegated /\ call.fwd # None) =>
    Deref(heap, call.fwd).variant = Deref(heap, call.exec).variant

\* C5 (as stated): while no fit call on a LeafModel has returned success,
\* predict, error, error_pruning and to_string raise and never return a value.
C5_QueryBeforeSuccessRaises ==
  (call.op \in QueryOps
     /\ (mnl[call.self] = None \/ ~Deref(heap, mnl[call.self]).ok))
    => call.outcome = "raise"

\* C5 (amended): while a LeafModel holds no backend (freshly constructed, or
\* after only fit calls that raised before reaching the backend), predict,
\* error, error_pruning and to_string raise at the facade and never return a
\* value.
C5_QueryWithoutBackendRaises ==
  (call.op \in QueryOps /\ mnl[call.self] = None) => call.outcome = "raise"

C5_Witness ==
  /\ call.op = "predict"
  /\ mnl[call.self] = None
  /\ leaf_mod_type[call.self] # Unset
  /\ call.outcome = "raise"

\* C6: a fit call whose fit_init is none or a previously fitted LeafModel
\* returns exactly the 0/1 sentinel of the held backend's fit and raises
\* nothing; after a return of 1 a further fit on the same LeafModel is still
\* accepted and delegated.
C6_FitReturnsSentinel ==
  /\ (call.op = "fit" /\ (call.fi = NoFitInit \/ SeenMnl # None)) =>
       /\ ~call.raised
       /\ call.bret \in {0, 1}
       /\ call.ret = call.bret
  /\ \A m \in Models :
       (alive[m] /\ mnl[m] # None /\ ~Deref(heap, mnl[m]).ok) =>
         ENABLED (\E a \in FitArgs, r \in BackendFitResults : Fit(m, a[1], a[2], NoFitInit, r))

C6_Witness ==
  /\ Delegated
  /\ call.preMnl # None
  /\ call.ret = 1
  /\ ~Deref(heap, call.exec).ok

\* C7: no two distinct LeafModel instances hold the same backend instance; a
\* backend reached through fit_init is forwarded only, never stored as the
\* receiving facade's backend.
C7_BackendNotShared ==
  /\ \A m1, m2 \in Models :
       (m1 # m2 /\ mnl[m1] # None) => mnl[m1] # mnl[m2]
  /\ (Delegated /\ call.fi # NoFitInit /\ call.fi # call.self /\ call.fiMnl # None)
       => mnl[call.self] # call.fiMnl

C7_Witness ==
  /\ Delegated
  /\ call.fi # NoFitInit /\ call.fi # call.self
  /\ call.fwd # None /\ call.preMnl = None
  /\ mnl[call.self] # call.fwd

\* the fit calls of the workers run one after another in the given order
RECURSIVE SeqRun(_, _)
SeqRun(order, st) ==
  IF order = <<>> THEN st
  ELSE LET w == Head(order)
           f == FitResult(st.types, st.mnls, st.hp, w,
                          wl[w].n, EffThresh(wl[w].th), wl[w].fi, 0)
       IN SeqRun(Tail(order),
                 [types |-> f.types, mnls |-> f.mnls, hp |-> f.hp,
                  fwd |-> [st.fwd EXCEPT ![w] = f.fwd]])

Ascending == [i \in 1..NumWorkers |-> i]
Descending == [i \in 1..NumWorkers |-> NumWorkers + 1 - i]
SeqStart == [types |-> init0.types, mnls |-> init0.mnls, hp |-> init0.hp,
             fwd |-> [w \in Workers |-> Unassigned]]

AllDone == \A w \in Workers : pc[w] = "done"

SameAsSequential(order) ==
  LET s == SeqRun(order, SeqStart)
  IN \A w \in Workers :
       /\ leaf_mod_type[w] = s.types[w]
       /\ mnl[w] = s.mnls[w]
       /\ Deref(heap, mnl[w]).variant = Deref(s.hp, s.mnls[w]).variant
       /\ wl[w].fit_init = s.fwd[w]

\* C10: when workers each run fit on their own LeafModel, with fit_init none
\* or a fitted LeafModel nobody is fitting, every interleaving of the
\* statements leaves each instance with the tag, held backend and forwarded
\* initializer of the calls run one after another, and leaves the tag and
\* backend of every fit_init unchanged.
C10_ParallelFitsIndependent ==
  /\ \A i \in InitModels :
       /\ leaf_mod_type[i] = init0.types[i]
       /\ mnl[i] = init0.mnls[i]
       /\ heap[i] = init0.hp[i]
  /\ \A w \in Workers : pc[w] # "raised"
  /\ AllDone => (SameAsSequential(Ascending) /\ SameAsSequential(Descending))

C10_Witness ==
  /\ AllDone
  /\ \E w1, w2 \in Workers :
       /\ w1 # w2
       /\ wl[w1].fi = wl[w2].fi /\ wl[w1].fi # NoFitInit
       /\ wl[w1].fit_init # None /\ wl[w2].fit_init = None
       /\ init0.mnls[w1] = None /\ init0.mnls[w2] # None
       /\ leaf_mod_type[w1] # leaf_mod_type[w2]

\* C8: are_Ys_diverse(Y) is true iff Y contains more than one distinct value:
\* False for an empty Y and for a Y whose entries are all equal, True as soon
\* as two entries differ, independent of order and multiplicity.
C8_DiverseIffTwoValues ==
  res.divDone =>
    /\ res.diverse <=> (\E i, j \in DOMAIN args.Y : args.Y[i] # args.Y[j])
    /\ (args.Y = <<>>) => ~res.diverse
    /\ (args.Y = <<1, 1, 1>>) => ~res.diverse
    /\ (args.Y = <<1, 2, 1>>) => res.diverse

C8_Witness ==
  /\ res.divDone
  /\ args.Y = <<1, 1, 1>>
  /\ ~res.diverse

\* the k-th smallest element of a set of positions
RECURSIVE Kth(_, _)
Kth(S, k) ==
  LET lo == CHOOSE x \in S : \A y \in S : x <= y
  IN IF k = 1 THEN lo ELSE Kth(S \ {lo}, k - 1)

\* the rows of data at the positions of S
RowsOf(data, S) == [k \in 1..Cardinality(S) |-> data[Kth(S, k) + 1]]

MaskSet == {i - 1 : i \in {j \in DOMAIN args.mask : args.mask[j]}}
IndsSet == {args.inds[k] : k \in DOMAIN args.inds}
IndsAscending == \A i, j \in DOMAIN args.inds : i < j => args.inds[i] < args.inds[j]

\* C9: for index-aligned A, Y and a set S of positions, get_sub with S as
\* integer positions and get_sub with the boolean mask of S return the same
\* result, the rows at S: A's rows alone when only A is given, Y's rows alone
\* when only Y is given, the pair when both are; A and Y are left unmodified.
C9_IndexAndMaskAgree ==
  /\ args = args0
  /\ (res.idxDone /\ res.maskDone /\ IndsAscending /\ IndsSet = MaskSet) =>
       /\ res.byIdx = res.byMask
       /\ res.byMask =
            (IF args.Y = Absent THEN <<"array", RowsOf(args.A, MaskSet)>>
             ELSE IF args.A = Absent THEN <<"array", RowsOf(args.Y, MaskSet)>>
             ELSE <<"tuple", RowsOf(args.A, MaskSet), RowsOf(args.Y, MaskSet)>>)

C9_Witness ==
  /\ res.idxDone /\ res.maskDone
  /\ args.inds = <<0, 2>> /\ args.mask = <<TRUE, FALSE, TRUE>>
  /\ args.A = <<10, 20, 30>> /\ args.Y = Absent
  /\ res.byIdx = <<"array", <<10, 30>>>>
  /\ res.byMask = res.byIdx

====
